---- MODULE Spec2Model ----
(***************************************************************************)
(* EchoVerse (src/app.py): a Streamlit script that rewrites a text in a    *)
(* chosen tone (rewrite_text), synthesises it (generate_audio) and keeps   *)
(* the results in st.session_state.narrations.                             *)
(*                                                                         *)
(* One script run is modelled as a chain of steps, cut at the two blocking *)
(* remote calls: Run* (lines 66-95, up to the POST of rewrite_text),       *)
(* Rewrite* (the POST returns; lines 45-50 and 96-97 up to the synthesize  *)
(* call), SynthResponse (lines 59-63), StoreNarration / SkipNarration      *)
(* (lines 99-135), PastNarrationsPanel (lines 139-159).                    *)
(*                                                                         *)
(* Strings stand for Python str and bytes values (inputs are ASCII, so the *)
(* utf-8 decode of an upload yields the same characters); None is a record *)
(* with none = TRUE.  uuid4 is modelled as a fresh value (a counter).      *)
(***************************************************************************)
EXTENDS Integers, Sequences, FiniteSets, TLC

\* ---------------------------------------------------------------- bounds
MaxNarrations == 2     \* clicks are offered while the history is shorter
MaxResults == 2        \* longest "results" list of a response body

\* ------------------------------------------------------------ input sets
Texts == {"", "a"}
GenTexts == {"", "x"}
AudioContents == {"", "mp3"}
Tones == {"Neutral", "Suspenseful", "Inspiring"}
\* two of the three voices of the selectbox: the voice is only passed
\* through to the service and into the record
Voices == {"en-US_LisaV3Voice", "en-US_MichaelV3Voice"}
Statuses == {200, 404, 500}

\* the seconds datetime.now() can show when a record is created
ClockReadings == {0, 1}

\* st.file_uploader: None, or a file whose read() gives content
NoUpload == [present |-> FALSE, content |-> ""]

Uploads == {NoUpload} \cup {[present |-> TRUE, content |-> c] : c \in Texts}

\* lines 74-81: only the widget of the chosen input method is rendered
WidgetInputs ==
  {[method |-> "Paste Text", pasted |-> p, upload |-> NoUpload] : p \in Texts}
    \cup {[method |-> "Upload File", pasted |-> "", upload |-> u] : u \in Uploads}

\* a result object of the generation service: a dict with or without the
\* key "generated_text"
ResultObjects == {[hasText |-> FALSE, text |-> ""]}
                   \cup {[hasText |-> TRUE, text |-> g] : g \in GenTexts}

ResultLists == UNION {[1..n -> ResultObjects] : n \in 0..MaxResults}

\* a response body: not JSON at all, or a JSON dict with or without the key
\* "results"
NoBody == [json |-> FALSE, hasResults |-> FALSE, results |-> <<>>]

Bodies == {NoBody, [json |-> TRUE, hasResults |-> FALSE, results |-> <<>>]}
            \cup {[json |-> TRUE, hasResults |-> TRUE, results |-> l] : l \in ResultLists}

\* what requests.post can produce: a transport exception, or a response
\* with a status and a body
Responses == {[kind |-> "transport", status |-> 0, body |-> NoBody]}
               \cup {[kind |-> "http", status |-> s, body |-> NoBody] : s \in Statuses \ {200}}
               \cup {[kind |-> "http", status |-> 200, body |-> b] : b \in Bodies}

\* what tts.synthesize(...).get_result().content can produce: an exception,
\* or the bytes of the response
SynthOutcomes == {[raises |-> TRUE, content |-> ""]}
                   \cup {[raises |-> FALSE, content |-> c] : c \in AudioContents}

NoneAudio == [none |-> TRUE, content |-> ""]

\* ------------------------------------------------------- pure functions

HasText_always(t) == TRUE

\* Python truthiness of a str: `if text_input`, `disabled=not text_input`
HasText(t) == t # ""

\* lines 75-81: the text the script works on
TextInput(method, pasted, upload) ==
  IF method = "Paste Text" THEN pasted
  ELSE IF upload.present THEN upload.content
  ELSE ""

\* line 32: the prompt sent to the generation endpoint
Prompt(text, tone_) ==
  <<"Rewrite the following text in a ", tone_,
    " tone while preserving the original meaning:\n\n", text>>

\* line 45: response.raise_for_status() raises HTTPError for 4xx and 5xx
RaisesForStatus(resp) == resp.status >= 400 /\ resp.status < 600

\* dict.get(key, default) on a result object for key "generated_text"
GetGeneratedText(obj, default) == IF obj.hasText THEN obj.text ELSE default

\* dict.get("results", [{}]) on the decoded body
GetResults(body) ==
  IF body.hasResults THEN body.results ELSE <<[hasText |-> FALSE, text |-> ""]>>

Returned(v) == [exc |-> "none", value |-> v, errors |-> 0]
Caught(v) == [exc |-> "none", value |-> v, errors |-> 1]
Raised(e) == [exc |-> e, value |-> "", errors |-> 0]

rewrite_text_returns_empty(text, tone_, resp, jsonErrIsRequestException) ==
  IF resp.kind = "transport" \/ RaisesForStatus(resp) THEN Caught("")
  ELSE IF ~resp.body.json
    THEN IF jsonErrIsRequestException THEN Caught("") ELSE Raised("JSONDecodeError")
  ELSE IF Len(GetResults(resp.body)) = 0 THEN Raised("IndexError")
  ELSE Returned(GetGeneratedText(GetResults(resp.body)[1], text))

\* lines 43-50.  Only requests.exceptions.RequestException is caught: the
\* transport errors of post, the HTTPError of raise_for_status and, in
\* requests >= 2.27, the JSONDecodeError of response.json() (older versions
\* raise a ValueError there, which is not caught).  [][0] on an empty
\* "results" list raises IndexError, which is not caught either.
rewrite_text(text, tone_, resp, jsonErrIsRequestException) ==
  IF resp.kind = "transport" THEN Caught(text)
  ELSE IF RaisesForStatus(resp) THEN Caught(text)
  ELSE IF ~resp.body.json
    THEN IF jsonErrIsRequestException THEN Caught(text) ELSE Raised("JSONDecodeError")
  ELSE IF Len(GetResults(resp.body)) = 0 THEN Raised("IndexError")
  ELSE Returned(GetGeneratedText(GetResults(resp.body)[1], text))

generate_audio_keeps_payload(text, voice_, out) ==
  IF out.raises THEN [value |-> [none |-> FALSE, content |-> "mp3"], errors |-> 1]
  ELSE [value |-> [none |-> FALSE, content |-> out.content], errors |-> 0]

\* lines 53-63: every Exception is caught, reported and turned into None
generate_audio(text, voice_, out) ==
  IF out.raises THEN [value |-> NoneAudio, errors |-> 1]
  ELSE [value |-> [none |-> FALSE, content |-> out.content], errors |-> 0]

SynthText_original(text, rewritten) == text

\* line 97: the text handed to generate_audio
SynthText(text, rewritten) == rewritten

Truthy_not_None(a) == ~a.none

\* line 99: `if audio_data:` is false for None and for b""
Truthy(a) == ~a.none /\ a.content # ""

\* lines 101-113: the record of a narration
NewRecord(id, text, rewritten, audio, tone_, voice_, ts) ==
  [id |-> id, original_text |-> text, rewritten_text |-> rewritten,
   audio |-> audio, tone |-> tone_, voice |-> voice_, timestamp |-> ts]

AppendNarration_in_front(narrs, rec) == <<rec>> \o narrs

\* line 105: list.append
AppendNarration(narrs, rec) == Append(narrs, rec)

Reverse(s) == [i \in 1..Len(s) |-> s[Len(s) + 1 - i]]

PastNarrations_in_order(narrs) == narrs

\* line 142: reversed(st.session_state.narrations)
PastNarrations(narrs) == Reverse(narrs)

\* ---------------------------------------------------------------- state
VARIABLES
  narrations,       \* st.session_state.narrations (line 67)
  pc,               \* where the current script run stands; "idle" between runs
  button_disabled,  \* how the last run rendered the button (line 92)
  now,              \* the last reading of the wall clock, in seconds
  text_input,       \* line 75-81
  tone,             \* line 87
  voice,            \* line 89
  clicked,          \* what st.button returned in this run (line 92)
  request,          \* the prompt posted by rewrite_text (line 32, 44)
  rewritten_text,   \* line 95
  synth_arg,        \* the text handed to tts.synthesize (line 55-56)
  audio_data,       \* line 97
  errors,           \* st.error notifications of this run (lines 49, 62)
  warnings,         \* st.warning notifications of this run (line 137)
  shown,            \* playback (line 127) and download (line 130) of this run
  yielded,          \* what the Past Narrations loop rendered last (line 142)
  uncaught,         \* the exception that ended this run, or "none"
  calls,            \* this run's remote calls and append, in order
  before,           \* the history when this run started
  created,          \* every record created in the session, in creation order
  rewrite_class,    \* how this run's generation response is classified
  rewrite_value,    \* the first result's generated text of this run's response
  synth_class,      \* how this run's synthesis outcome is classified
  successes         \* synthesis calls of the session that returned audio bytes

vars == <<narrations, pc, button_disabled, now, text_input, tone, voice, clicked,
          request, rewritten_text, synth_arg, audio_data, errors, warnings, shown,
          yielded, uncaught, calls, before, created, rewrite_class, rewrite_value,
          synth_class, successes>>

NothingShown == [audio |-> FALSE, download |-> FALSE]

\* the failure classes of a generation response: transport failure,
\* non-success status, unexpected shape; "ok" is a JSON dict whose first
\* result carries a generated text
ResponseClass(resp) ==
  IF resp.kind = "transport" THEN "transport"
  ELSE IF resp.status # 200 THEN "status"
  ELSE IF ~resp.body.json \/ ~resp.body.hasResults THEN "shape"
  ELSE IF Len(resp.body.results) = 0 THEN "shape"
  ELSE IF ~resp.body.results[1].hasText THEN "shape"
  ELSE "ok"

SynthClass(out) ==
  IF out.raises THEN "failed" ELSE IF out.content = "" THEN "empty" ELSE "ok"

\* lines 65-67, then the first script run with nothing entered and nothing
\* clicked: the button is rendered disabled and the panel shows no record
Init ==
  /\ narrations = <<>>
  /\ pc = "idle"
  /\ button_disabled = TRUE
  /\ now = 0
  /\ text_input = ""
  /\ tone = "Neutral"
  /\ voice = "en-US_LisaV3Voice"
  /\ clicked = FALSE
  /\ request = <<>>
  /\ rewritten_text = ""
  /\ synth_arg = ""
  /\ audio_data = NoneAudio
  /\ errors = 0
  /\ warnings = 0
  /\ shown = NothingShown
  /\ yielded = <<>>
  /\ uncaught = "none"
  /\ calls = <<>>
  /\ before = <<>>
  /\ created = <<>>
  /\ rewrite_class = "none"
  /\ rewrite_value = ""
  /\ synth_class = "none"
  /\ successes = 0

\* the names of a script run do not outlive it; the page is redrawn by the
\* next run
RunEnds ==
  /\ pc' = "idle"
  /\ text_input' = ""
  /\ tone' = "Neutral"
  /\ voice' = "en-US_LisaV3Voice"
  /\ clicked' = FALSE
  /\ request' = <<>>
  /\ rewritten_text' = ""
  /\ synth_arg' = ""
  /\ audio_data' = NoneAudio
  /\ errors' = 0
  /\ warnings' = 0
  /\ shown' = NothingShown
  /\ uncaught' = "none"
  /\ calls' = <<>>
  /\ before' = narrations
  /\ rewrite_class' = "none"
  /\ rewrite_value' = ""
  /\ synth_class' = "none"

\* lines 66-92: a rerun reads the widgets and renders the button
RunStarts(t, tn, v, click) ==
  /\ pc = "idle"
  /\ text_input' = t
  /\ tone' = tn
  /\ voice' = v
  /\ clicked' = click
  /\ button_disabled' = ~HasText(t)
  /\ UNCHANGED <<narrations, now, rewritten_text, synth_arg, audio_data, errors,
                 shown, yielded, uncaught, before, created, rewrite_class,
                 rewrite_value, synth_class, successes>>

\* a widget changed and the button was not clicked: line 92 is false, the
\* run goes straight to the panel (lines 139-159) and ends; the tone and
\* the voice it read are not used
RunNoClick(w) ==
  /\ pc = "idle"
  /\ button_disabled' = ~HasText(TextInput(w.method, w.pasted, w.upload))
  /\ yielded' = PastNarrations(narrations)
  /\ RunEnds
  /\ UNCHANGED <<narrations, now, created, successes>>

\* the button, rendered enabled by the last run, was clicked and this run
\* finds no text: lines 92, 93, 136-137
ClickEmpty(w, tn, v) ==
  /\ ~button_disabled
  /\ ~HasText(TextInput(w.method, w.pasted, w.upload))
  /\ RunStarts(TextInput(w.method, w.pasted, w.upload), tn, v, TRUE)
  /\ warnings' = warnings + 1
  /\ pc' = "panel"
  /\ UNCHANGED <<request, calls>>

\* the button was clicked and there is text: lines 92-95 and 28-44, up to
\* the POST
ClickGenerate(w, tn, v) ==
  /\ ~button_disabled
  /\ Len(narrations) < MaxNarrations
  /\ HasText(TextInput(w.method, w.pasted, w.upload))
  /\ RunStarts(TextInput(w.method, w.pasted, w.upload), tn, v, TRUE)
  /\ request' = Prompt(TextInput(w.method, w.pasted, w.upload), tn)
  /\ calls' = <<"rewrite_call">>
  /\ pc' = "rewrite"
  /\ UNCHANGED warnings

\* lines 44-50 return, then lines 96-97 up to the synthesize call
RewriteReturns(resp, jsonErrIsRequestException) ==
  /\ pc = "rewrite"
  /\ rewrite_text(text_input, tone, resp, jsonErrIsRequestException).exc = "none"
  /\ rewritten_text' = rewrite_text(text_input, tone, resp, jsonErrIsRequestException).value
  /\ errors' = errors + rewrite_text(text_input, tone, resp, jsonErrIsRequestException).errors
  /\ synth_arg' = SynthText(text_input, rewritten_text')
  /\ calls' = calls \o <<"rewrite_ret", "synth_call">>
  /\ rewrite_class' = ResponseClass(resp)
  /\ rewrite_value' = IF ResponseClass(resp) = "ok" THEN resp.body.results[1].text ELSE ""
  /\ pc' = "synth"
  /\ UNCHANGED <<narrations, button_disabled, now, text_input, tone, voice, clicked,
                 request, audio_data, warnings, shown, yielded, uncaught, before,
                 created, synth_class, successes>>

\* lines 46-47 raise an exception that line 48 does not catch: the run stops
RewriteRaises(resp, jsonErrIsRequestException) ==
  /\ pc = "rewrite"
  /\ rewrite_text(text_input, tone, resp, jsonErrIsRequestException).exc # "none"
  /\ uncaught' = rewrite_text(text_input, tone, resp, jsonErrIsRequestException).exc
  /\ calls' = Append(calls, "rewrite_raise")
  /\ rewrite_class' = ResponseClass(resp)
  /\ pc' = "aborted"
  /\ UNCHANGED <<narrations, button_disabled, now, text_input, tone, voice, clicked,
                 request, rewritten_text, synth_arg, audio_data, errors, warnings,
                 shown, yielded, before, created, rewrite_value, synth_class, successes>>

\* the script runner reports the exception; nothing below line 95 runs
RunAborted ==
  /\ pc = "aborted"
  /\ RunEnds
  /\ UNCHANGED <<narrations, button_disabled, now, yielded, created, successes>>

\* lines 55-63 return
SynthResponse(out) ==
  /\ pc = "synth"
  /\ audio_data' = generate_audio(synth_arg, voice, out).value
  /\ errors' = errors + generate_audio(synth_arg, voice, out).errors
  /\ calls' = Append(calls, "synth_ret")
  /\ synth_class' = SynthClass(out)
  /\ successes' = IF SynthClass(out) = "ok" THEN successes + 1 ELSE successes
  /\ pc' = "store"
  /\ UNCHANGED <<narrations, button_disabled, now, text_input, tone, voice, clicked,
                 request, rewritten_text, synth_arg, warnings, shown, yielded,
                 uncaught, before, created, rewrite_class, rewrite_value>>

\* lines 99-135: the clock is read (it never runs backwards), the record is
\* appended, then text, playback and download are rendered
StoreNarration(ts) ==
  /\ pc = "store"
  /\ Truthy(audio_data)
  /\ ts >= now
  /\ now' = ts
  /\ narrations' = AppendNarration(narrations,
                     NewRecord(Len(created) + 1, text_input, rewritten_text,
                               audio_data.content, tone, voice, ts))
  /\ created' = Append(created,
                     NewRecord(Len(created) + 1, text_input, rewritten_text,
                               audio_data.content, tone, voice, ts))
  /\ calls' = Append(calls, "append")
  /\ shown' = [audio |-> TRUE, download |-> TRUE]
  /\ pc' = "panel"
  /\ UNCHANGED <<button_disabled, text_input, tone, voice, clicked, request,
                 rewritten_text, synth_arg, audio_data, errors, warnings, yielded,
                 uncaught, before, rewrite_class, rewrite_value, synth_class, successes>>

\* line 99 is false: nothing is appended or rendered for this action
SkipNarration ==
  /\ pc = "store"
  /\ ~Truthy(audio_data)
  /\ pc' = "panel"
  /\ UNCHANGED <<narrations, button_disabled, now, text_input, tone, voice, clicked,
                 request, rewritten_text, synth_arg, audio_data, errors, warnings,
                 shown, yielded, uncaught, calls, before, created, rewrite_class,
                 rewrite_value, synth_class, successes>>

\* lines 139-159: the history is rendered newest first; the run ends
PastNarrationsPanel ==
  /\ pc = "panel"
  /\ yielded' = PastNarrations(narrations)
  /\ RunEnds
  /\ UNCHANGED <<narrations, button_disabled, now, created, successes>>

Next ==
  \/ \E w \in WidgetInputs : RunNoClick(w)
  \/ \E w \in WidgetInputs, tn \in Tones, v \in Voices : ClickEmpty(w, tn, v)
  \/ \E w \in WidgetInputs, tn \in Tones, v \in Voices : ClickGenerate(w, tn, v)
  \/ \E resp \in Responses, c \in BOOLEAN : RewriteReturns(resp, c)
  \/ \E resp \in Responses, c \in BOOLEAN : RewriteRaises(resp, c)
  \/ RunAborted
  \/ \E out \in SynthOutcomes : SynthResponse(out)
  \/ \E ts \in ClockReadings : StoreNarration(ts)
  \/ SkipNarration
  \/ PastNarrationsPanel

Spec == Init /\ [][Next]_vars

\* ---------------------------------------------------------------- claims

RewriteFailed == rewrite_class \in {"transport", "status"}

IsPrefix(a, b) == Len(a) <= Len(b) /\ SubSeq(b, 1, Len(a)) = a

ExpectedOrder == <<"rewrite_call", "rewrite_ret", "synth_call", "synth_ret", "append">>

\* C1 as stated: an action whose rewrite call failed (transport error or
\* non-success status) or whose synthesis call failed appends no record.
C1_NoRecordAfterAnyFailedCall ==
  (RewriteFailed \/ synth_class = "failed") => narrations = before

\* C1, amended: a record is appended by an action only after its rewrite
\* call has returned (the generated text or, after a caught failure, the
\* original text) and its synthesis call returned a non-empty payload; a
\* failed synthesis call leaves the history as it was; a failed rewrite
\* call does not end the action: with a good synthesis the action ends
\* with exactly one new record, whose rewritten text is the original text.
C1_RecordOnlyAfterSynthesisSucceeded ==
  /\ narrations # before =>
       synth_class = "ok" /\ rewrite_class # "none" /\ uncaught = "none"
  /\ synth_class = "failed" => narrations = before
  /\ (RewriteFailed /\ synth_class = "ok" /\ pc = "panel") =>
       /\ Len(narrations) = Len(before) + 1
       /\ narrations[Len(narrations)].rewritten_text = text_input

C1_Witness ==
  /\ pc = "panel"
  /\ RewriteFailed
  /\ Len(narrations) = Len(before) + 1

\* C2: every failure of a remote call (transport failure, non-success
\* status, unexpected response shape) is caught inside rewrite_text or
\* generate_audio, reported with an error message and turned into the
\* fallback (the original text, None); no exception leaves the function.
C2_EveryFailureCaughtAndReported ==
  /\ uncaught = "none"
  /\ (pc = "synth" /\ rewrite_class \in {"transport", "status", "shape"}) =>
       errors = 1 /\ rewritten_text = text_input
  /\ synth_class = "failed" => audio_data = NoneAudio /\ errors >= 1

\* C3: when the rewrite request fails with a transport error or a
\* non-success status, rewrite_text returns the input text unchanged and
\* emits exactly one error notification, and the action goes on to the
\* synthesis call.
C3_RewriteFailureFallsBack ==
  RewriteFailed =>
    /\ uncaught = "none"
    /\ pc \in {"synth", "store", "panel"}
    /\ rewritten_text = text_input
    /\ errors = 1 + (IF synth_class = "failed" THEN 1 ELSE 0)
    /\ Len(calls) >= 3 /\ calls[3] = "synth_call"

C3_Witness ==
  /\ pc = "synth"
  /\ rewrite_class = "status"
  /\ rewritten_text = "a"
  /\ errors = 1

\* C4: when the synthesis call raises, generate_audio reports an error and
\* returns None, and the action appends no record and renders neither
\* playback nor download: the history is what it was before the action.
C4_SynthesisFailureLeavesNoTrace ==
  synth_class = "failed" =>
    /\ audio_data = NoneAudio
    /\ errors >= 1
    /\ narrations = before
    /\ shown = NothingShown
    /\ "append" \notin {calls[i] : i \in 1..Len(calls)}

C4_Witness ==
  /\ pc = "panel"
  /\ synth_class = "failed"
  /\ Len(before) >= 1

\* C5: between actions the history holds exactly one record per successful
\* narration, and the Past Narrations loop yields the records in strictly
\* reverse creation order.
C5_HistoryCountAndReverseOrder ==
  /\ pc # "store" => Len(narrations) = successes
  /\ pc = "idle" =>
       /\ Len(yielded) = Len(created)
       /\ \A i \in 1..Len(yielded) : yielded[i] = created[Len(created) + 1 - i]
       /\ \A i, j \in 1..Len(yielded) : i < j => yielded[i].id > yielded[j].id

C5_Witness ==
  /\ pc = "idle"
  /\ successes = 2
  /\ Len(yielded) = 2
  /\ yielded[1].id = 2
  /\ yielded[2].id = 1

\* C6: a run whose text input is empty performs no remote call and appends
\* nothing.
C6_EmptyInputNoCallNoRecord ==
  (pc # "idle" /\ text_input = "") =>
    /\ pc = "panel"
    /\ calls = <<>>
    /\ request = <<>>
    /\ narrations = before

C6_Witness ==
  /\ pc = "panel"
  /\ clicked
  /\ text_input = ""
  /\ warnings = 1
  /\ calls = <<>>

\* C7: an action makes at most one rewrite call and one synthesis call, in
\* the order rewrite call, rewrite return, synthesis call, synthesis
\* return, append; the synthesis call is made on the value the rewrite call
\* returned; nothing is appended before the synthesis call has returned.
C7_CallsInFixedOrder ==
  /\ \/ IsPrefix(calls, ExpectedOrder)
     \/ calls = <<"rewrite_call", "rewrite_raise">>
  /\ (Len(calls) >= 3 /\ calls[3] = "synth_call") => synth_arg = rewritten_text
  /\ pc \in {"rewrite", "synth", "store", "aborted"} => narrations = before

C7_Witness ==
  /\ calls = ExpectedOrder
  /\ synth_arg = "x"
  /\ text_input = "a"

\* C8: every step leaves the history unchanged or appends exactly one
\* record at its end; the old history is a prefix of the new one.
C8_HistoryAppendOnly ==
  [][\/ narrations' = narrations
     \/ /\ Len(narrations') = Len(narrations) + 1
        /\ SubSeq(narrations', 1, Len(narrations)) = narrations]_vars

C8_Witness ==
  /\ Len(narrations) >= 2
  /\ narrations[1].id = 1
  /\ narrations[2].id = 2

\* C9: for a non-empty text, a rewrite call answered with HTTP success and
\* a JSON body whose first result carries a generated text returns a
\* non-empty string, namely that generated text.
C9_SuccessfulRewriteNonEmpty ==
  (pc = "synth" /\ rewrite_class = "ok") =>
    /\ rewritten_text = rewrite_value
    /\ rewritten_text # ""

\* C10: every record of the history has a non-empty original text and a
\* non-empty audio payload; an empty payload from the synthesis call
\* appends nothing.
C10_RecordsHaveTextAndAudio ==
  /\ \A i \in 1..Len(narrations) :
       narrations[i].original_text # "" /\ narrations[i].audio # ""
  /\ synth_class = "empty" => narrations = before

C10_Witness ==
  /\ pc = "panel"
  /\ synth_class = "empty"
  /\ audio_data = [none |-> FALSE, content |-> ""]
  /\ Len(narrations) >= 1

====
